---- MODULE Spec2Model ----
(***************************************************************************)
(* SmartCRM: the contact / email stores.                                   *)
(*                                                                         *)
(*  - the raw-SQL store  (postgres_utils.DataBase) with its Flask API      *)
(*    (api.py): the four tables, the serial sequences of contacts and      *)
(*    emails, and the last response.                                       *)
(*  - the ORM store (backend/app/models) with its services                 *)
(*    (ContactService, EmailService): the same four tables.                *)
(*                                                                         *)
(* Every handler is an operator from a store s (a record of the tables and *)
(* sequences) and a request to the set of its outcomes: the response       *)
(* (status, http, msg, id) together with the store after it.  The action   *)
(* of a handler applies one outcome to the variables.                      *)
(*                                                                         *)
(* Text is modelled as a sequence of words, so that Python's substring     *)
(* test (`x in message`) and str.replace are computed, not assumed.        *)
(* A request runs on its own connection (api.get_db / close_db): a call    *)
(* that raises before conn.commit() leaves the committed tables as they    *)
(* were.  Serial values burnt by a rolled-back INSERT are not modelled: ids *)
(* are only ever compared for equality.                                    *)
(***************************************************************************)
EXTENDS Integers, Sequences, FiniteSets, TLC

\* ------------------------------------------------------------------ bounds
\* contact rows ever inserted (values handed out by the contacts id sequence)
MaxContacts == 2
\* longest contact_methods list of one add_contact request
MaxMethods == 2
\* calendar dates are 1..MaxDate
MaxDate == 2
\* emails rows ever inserted in the ORM store (which does not deduplicate)
MaxEmails == 2
\* connections open at the same time (one per request in flight)
MaxConns == 2
\* longest list of emails handed to one save_emails_to_db call
MaxBatch == 2

\* ------------------------------------------------------------------ values
\* Python None / SQL NULL for a text column
NULL == <<"<None>">>
\* SQL NULL for a date column
NoDate == 0
\* the string "nan" pandas produces for an empty csv cell
NanText == <<"nan">>
NanDate == -2
\* a date string that PostgreSQL cannot parse as a date
BadDate == -1

Names == {<<"Ann">>, <<"Bob">>}
Companies == {<<"Acme">>}
Values == {<<"a@x.com">>, <<"b@x.com">>}
MethodTypes == {"email", "phone"}

\* the phrase api.delete_contact looks for in the error message
MultipleFound == <<"Multiple", "contacts", "found">>
NotFoundText == <<"Contact", "not", "found">>
AlreadyUsed == <<"is", "already", "used", "by", "contact">>

Quote == "'"
Contents == {<<"hello">>, <<"it", Quote, "s">>}
Summaries == {<<>>, <<"sum">>}

Dates == 1..MaxDate

\* ------------------------------------------------------------------ helpers
Min(S) == CHOOSE x \in S : \A y \in S : x <= y

\* Python `needle in text` on word sequences: a contiguous occurrence
Contains(text, needle) ==
    \E i \in 0..(Len(text) - Len(needle)) :
        \A j \in 1..Len(needle) : text[i + j] = needle[j]

StartsWith(text, prefix) ==
    /\ Len(prefix) <= Len(text)
    /\ \A j \in 1..Len(prefix) : text[j] = prefix[j]

\* str.replace("'", "''")
RECURSIVE Escape(_)
Escape(s) ==
    IF s = <<>> THEN <<>>
    ELSE (IF Head(s) = Quote THEN <<Quote, Quote>> ELSE <<Head(s)>>) \o Escape(Tail(s))

\* Python truthiness of an optional string
Truthy(s) == s # NULL /\ s # <<>>

\* store says which of the two back ends the tables belong to: "sql" is
\* postgres_utils.DataBase behind api.py, "orm" the SQLAlchemy models behind
\* backend/app/services
\* contacts .. email_seq are the committed tables and sequences; conns holds, for
\* each connection, the request it is serving, the statement it has reached and
\* the writes of its open transaction
VARIABLES contacts, contact_methods, emails, contact_emails,
          contact_seq, email_seq, result, store, conns

vars == <<contacts, contact_methods, emails, contact_emails,
          contact_seq, email_seq, result, store, conns>>

Conn == 1..MaxConns

NoRows == [contacts |-> {}, contact_methods |-> {}, emails |-> {}, contact_emails |-> {}]

\* a connection that serves no request
Idle ==
    [op |-> "idle", pc |-> "idle", req |-> <<>>, cid |-> 0, eid |-> 0, i |-> 0,
     ids |-> {}, todo |-> {}, ins |-> NoRows, del |-> NoRows, upd |-> {}]

\* The last response: the handler that ran and how it ended.  What it answered
\* (status code, message, id) is in the outcome the handler's operator returns.
NoResult == [op |-> "none", status |-> "none"]

EmptyTables ==
    /\ contacts = {}
    /\ contact_methods = {}
    /\ emails = {}
    /\ contact_emails = {}
    /\ contact_seq = 0
    /\ email_seq = 0
    /\ result = NoResult
    /\ conns = [k \in Conn |-> Idle]

Init == EmptyTables /\ store = "sql"

InitORM == EmptyTables /\ store = "orm"

\* the store as the handlers see it
Cur ==
    [contacts |-> contacts, contact_methods |-> contact_methods,
     emails |-> emails, contact_emails |-> contact_emails,
     contact_seq |-> contact_seq, email_seq |-> email_seq]

\* an outcome: a response and the store it leaves
Outcome(s, status, http, msg, id) ==
    [status |-> status, http |-> http, msg |-> msg, id |-> id,
     contacts |-> s.contacts, contact_methods |-> s.contact_methods,
     emails |-> s.emails, contact_emails |-> s.contact_emails,
     contact_seq |-> s.contact_seq, email_seq |-> s.email_seq]

\* the handler's commit and its response
Apply(op, o) ==
    /\ contacts' = o.contacts
    /\ contact_methods' = o.contact_methods
    /\ emails' = o.emails
    /\ contact_emails' = o.contact_emails
    /\ contact_seq' = o.contact_seq
    /\ email_seq' = o.email_seq
    /\ result' = [op |-> op, status |-> o.status]
    /\ UNCHANGED <<store, conns>>

SameTables(s, o) ==
    /\ o.contacts = s.contacts
    /\ o.contact_methods = s.contact_methods
    /\ o.emails = s.emails
    /\ o.contact_emails = s.contact_emails

\* ------------------------------------------------------------------ add_contact
Method == [type : MethodTypes, value : Values]

MethodLists == UNION {[1..n -> Method] : n \in 0..MaxMethods}

\* `if x == "nan": x = None`
NanToNone(x) == IF x = NanText THEN NULL ELSE x
NanToNoDate(d) == IF d = NanDate THEN NoDate ELSE d

\* SELECT c.name, c.company, cm.method_type, cm.value FROM contact_methods cm
\*   JOIN contacts c ON c.id = cm.contact_id WHERE cm.value = %s
OwnersOf(s, method) ==
    {ro \in s.contact_methods \X s.contacts :
        ro[1].value = method.value /\ ro[2].id = ro[1].contact_id}

\* the check compares the type as well as the value
FirstDuplicate_SameType(s, methods) ==
    LET hit == {i \in DOMAIN methods :
                   \E ro \in OwnersOf(s, methods[i]) :
                       ro[1].method_type = methods[i].type}
    IN IF hit = {} THEN 0 ELSE Min(hit)

\* the check looks at the first method only
FirstDuplicate_FirstOnly(s, methods) ==
    IF methods # <<>> /\ OwnersOf(s, methods[1]) # {} THEN 1 ELSE 0

\* the duplicate check loop: index of the first method whose value is stored, or 0
FirstDuplicate(s, methods) ==
    LET hit == {i \in DOMAIN methods : OwnersOf(s, methods[i]) # {}}
    IN IF hit = {} THEN 0 ELSE Min(hit)

\* f"Contact method '{value}' ({type}) is already used by contact '{name}'{ at company}"
DuplicateMessage(row, owner) ==
    <<"Contact", "method">> \o row.value \o <<row.method_type>> \o AlreadyUsed
        \o owner.name
        \o (IF Truthy(owner.company) THEN <<"at">> \o owner.company ELSE <<>>)

\* UNIQUE (contact_id, value) on contact_methods
UniqueContactValue(rows) ==
    \A r1, r2 \in rows :
        (r1.contact_id = r2.contact_id /\ r1.value = r2.value) => r1.id = r2.id

\* the rows the second loop inserts for the new contact; the serial id of a row is
\* modelled as a number made of the contact id and the position in the request
NewMethodRows(cid, methods) ==
    {[id |-> cid * (MaxMethods + 1) + i, contact_id |-> cid,
      method_type |-> methods[i].type, value |-> methods[i].value] :
        i \in DOMAIN methods}

\* api.add_contact's mapping of DataBase.add_contact's outcome to a status
AddContactStatus(status, msg) ==
    IF status = "ok" THEN 201
    ELSE IF status = "ValueError" /\ Contains(msg, AlreadyUsed) THEN 400
    ELSE 500

add_contact(s, name, methods, company0, last_contacted0) ==
    LET company == NanToNone(company0)
        last_contacted == NanToNoDate(last_contacted0)
        dup == FirstDuplicate(s, methods)
        cid == s.contact_seq + 1
        rows == NewMethodRows(cid, methods)
    IN
    IF dup # 0
    THEN \* fetchone(): some row with that value, joined to its contact
         {Outcome(s, "ValueError",
                  AddContactStatus("ValueError", DuplicateMessage(ro[1], ro[2])),
                  DuplicateMessage(ro[1], ro[2]), 0) :
            ro \in OwnersOf(s, methods[dup])}
    ELSE IF ~UniqueContactValue(s.contact_methods \cup rows)
    THEN \* psycopg2 UniqueViolation on a later INSERT: nothing is committed
         {Outcome(s, "IntegrityError", AddContactStatus("IntegrityError", <<>>), <<>>, 0)}
    ELSE {Outcome([s EXCEPT
                     !.contacts = @ \cup
                         {[id |-> cid, name |-> name, company |-> company,
                           last_contacted |-> last_contacted]},
                     !.contact_methods = @ \cup rows,
                     !.contact_seq = cid],
                  "ok", AddContactStatus("ok", <<>>), <<>>, cid)}

\* POST /contacts: the request is validated, then handed to DataBase.add_contact
post_contacts(s, name, methods, company, last_contacted) ==
    IF methods = <<>>
    THEN {Outcome(s, "BadRequest", 400, <<"At", "least", "one", "contact", "method">>, 0)}
    ELSE add_contact(s, name, methods, company, last_contacted)

AddContact(name, methods, company, last_contacted) ==
    \E o \in post_contacts(Cur, name, methods, company, last_contacted) :
        /\ o.status = "ok" => contact_seq < MaxContacts
        /\ Apply("add_contact", o)

\* ------------------------------------------------------------------ delete_contact
\* the company filter is left out of the SELECT
Matching_NoCompany(s, name, contact_info, company) ==
    {c \in s.contacts :
        /\ c.name = name
        /\ (contact_info # NULL =>
               \E m \in s.contact_methods :
                   m.contact_id = c.id /\ m.value = contact_info)}

\* the rows of the SELECT ... WHERE c.name = %s [AND c.company = %s] [AND EXISTS (...)]
Matching(s, name, contact_info, company) ==
    {c \in s.contacts :
        /\ c.name = name
        /\ (company # NULL => c.company = company)
        /\ (contact_info # NULL =>
               \E m \in s.contact_methods :
                   m.contact_id = c.id /\ m.value = contact_info)}

\* rows of a set in id order (the order in which a message lists them)
RECURSIVE ById(_)
ById(S) ==
    IF S = {} THEN <<>>
    ELSE LET r == CHOOSE x \in S : \A y \in S \ {x} : x.id < y.id
         IN <<r>> \o ById(S \ {r})

RECURSIVE Flatten(_)
Flatten(ss) == IF ss = <<>> THEN <<>> ELSE Head(ss) \o Flatten(Tail(ss))

\* ", ".join(f"{m['type']}: {m['value']}" for m in methods); the LEFT JOIN gives a
\* contact without methods one object whose type and value are null
MethodsStr(s, c) ==
    LET ms == ById({m \in s.contact_methods : m.contact_id = c.id})
    IN IF ms = <<>> THEN <<"None", "None">>
       ELSE Flatten([i \in DOMAIN ms |-> <<ms[i].method_type>> \o ms[i].value])

\* f"{company_str} ({methods_str})"
ContactDetail(s, c) ==
    (IF Truthy(c.company) THEN <<"at">> \o c.company ELSE <<>>)
        \o <<"(">> \o MethodsStr(s, c) \o <<")">>

MultipleMessage(s, name, found) ==
    LET cs == ById(found)
    IN MultipleFound \o <<"with", "name">> \o name
          \o <<"Please", "provide", "additional", "information">>
          \o Flatten([i \in DOMAIN cs |-> ContactDetail(s, cs[i])])

NotFoundMessage(contact_info, company) ==
    NotFoundText
        \o (IF Truthy(company) THEN <<"at", "company">> \o company ELSE <<>>)
        \o (IF Truthy(contact_info) THEN <<"with", "contact", "info">> \o contact_info
            ELSE <<>>)

\* api.delete_contact's mapping of (success, error_message) to a status
DeleteStatus(success, error_message) ==
    IF success THEN 200
    ELSE IF Contains(error_message, MultipleFound) THEN 409
    ELSE 404

\* the three DELETEs go by the contact's name, not its id
DeleteRows_ByName(s, c) ==
    LET gone == {x.id : x \in {y \in s.contacts : y.name = c.name}}
    IN [s EXCEPT !.contact_emails = {l \in @ : l.contact_id \notin gone},
                 !.contact_methods = {m \in @ : m.contact_id \notin gone},
                 !.contacts = {x \in @ : x.id \notin gone}]

\* the join rows stay behind
DeleteRows_KeepLinks(s, c) ==
    [s EXCEPT !.contact_methods = {m \in @ : m.contact_id # c.id},
              !.contacts = {x \in @ : x.id # c.id}]

\* DELETE FROM contact_emails / contact_methods WHERE contact_id = %s,
\* DELETE FROM contacts WHERE id = %s
DeleteRows(s, c) ==
    [s EXCEPT !.contact_emails = {l \in @ : l.contact_id # c.id},
              !.contact_methods = {m \in @ : m.contact_id # c.id},
              !.contacts = {x \in @ : x.id # c.id}]

\* the outcome's status names the return statement taken: "NotFound" and
\* "Multiple" return (False, msg), "True" returns (True, None)
delete_contact(s, name, contact_info, company) ==
    LET found == Matching(s, name, contact_info, company) IN
    IF found = {}
    THEN LET msg == NotFoundMessage(contact_info, company)
         IN {Outcome(s, "NotFound", DeleteStatus(FALSE, msg), msg, 0)}
    ELSE IF Cardinality(found) > 1
    THEN LET msg == MultipleMessage(s, name, found)
         IN {Outcome(s, "Multiple", DeleteStatus(FALSE, msg), msg, 0)}
    ELSE LET c == CHOOSE x \in found : TRUE IN
         {Outcome(DeleteRows(s, c), "True", DeleteStatus(TRUE, NULL), NULL, c.id)}

DeleteContact(name, contact_info, company) ==
    \E o \in delete_contact(Cur, name, contact_info, company) :
        Apply("delete_contact", o)

\* ------------------------------------------------------------------ add_email
\* SELECT id FROM emails WHERE content = %s  (content already escaped)
ExistingEmail(s, content) == {e \in s.emails : e.content = content}

\* SELECT DISTINCT c.id ... JOIN contact_methods cm ... WHERE cm.value IN (...)
ResolveContacts(s, entries) ==
    {c.id : c \in {x \in s.contacts :
                     \E m \in s.contact_methods :
                        m.contact_id = x.id /\ m.value \in entries}}

\* the UPDATE has no condition on the current value
BumpLastContacted_Always(cs, ids, date) ==
    {IF c.id \in ids THEN [c EXCEPT !.last_contacted = date] ELSE c : c \in cs}

\* UPDATE contacts SET last_contacted = %s
\*   WHERE id = %s AND (last_contacted IS NULL OR last_contacted < %s)
BumpLastContacted(cs, ids, date) ==
    {IF c.id \in ids /\ (c.last_contacted = NoDate \/ c.last_contacted < date)
     THEN [c EXCEPT !.last_contacted = date] ELSE c : c \in cs}

\* INSERT INTO contact_emails ... ON CONFLICT (contact_id, email_id) DO NOTHING
LinkContacts(links, ids, email_id) ==
    links \cup {[contact_id |-> i, email_id |-> email_id] : i \in ids}

\* INSERT INTO emails (date, summary, content) ... RETURNING id
InsertEmail(s, date, summary, content) ==
    [s EXCEPT !.emails = @ \cup {[id |-> s.email_seq + 1, date |-> date,
                                  summary |-> summary, content |-> content]},
              !.email_seq = @ + 1]

\* the loop over the resolved contacts, and the commit
LinkAndBump(s, ids, email_id, date, http) ==
    Outcome([s EXCEPT !.contact_emails = LinkContacts(@, ids, email_id),
                      !.contacts = BumpLastContacted(@, ids, date)],
            "ok", http, <<>>, email_id)

add_email(s, entries, date, content0, summary0) ==
    LET content == Escape(content0)
        summary == Escape(summary0)
        existing == ExistingEmail(s, content)
        ids == ResolveContacts(s, entries)
    IN
    IF existing = {} /\ date = BadDate
    THEN \* the INSERT fails on the date
         {Outcome(s, "DataError", 500, <<>>, 0)}
    ELSE IF entries = {}
    THEN \* "WHERE cm.value IN ()" is a syntax error
         {Outcome(s, "SyntaxError", 500, <<>>, 0)}
    ELSE IF ids # {} /\ date = BadDate
    THEN \* the UPDATE fails on the date
         {Outcome(s, "DataError", 500, <<>>, 0)}
    ELSE IF existing = {}
    THEN {LinkAndBump(InsertEmail(s, date, summary, content), ids,
                      s.email_seq + 1, date, 201)}
    ELSE {LinkAndBump(s, ids, e.id, date, 201) : e \in existing}

AddEmail(entries, date, content, summary) ==
    \E o \in add_email(Cur, entries, date, content, summary) : Apply("add_email", o)

\* ------------------------------------------------------------------ update_emails_for_contact
update_emails_for_contact(s, contact_id, date, content0, summary0) ==
    LET content == Escape(content0)
        summary == Escape(summary0)
        existing == ExistingEmail(s, content)
    IN
    IF existing = {} /\ date = BadDate
    THEN {Outcome(s, "DataError", 0, <<>>, 0)}
    ELSE IF contact_id \notin {c.id : c \in s.contacts}
    THEN \* contact_emails.contact_id REFERENCES contacts(id)
         {Outcome(s, "IntegrityError", 0, <<>>, 0)}
    ELSE IF date = BadDate
    THEN {Outcome(s, "DataError", 0, <<>>, 0)}
    ELSE IF existing = {}
    THEN {LinkAndBump(InsertEmail(s, date, summary, content), {contact_id},
                      s.email_seq + 1, date, 0)}
    ELSE {LinkAndBump(s, {contact_id}, e.id, date, 0) : e \in existing}

UpdateEmailsForContact(contact_id, date, content, summary) ==
    \E o \in update_emails_for_contact(Cur, contact_id, date, content, summary) :
        Apply("update_emails_for_contact", o)

\* ------------------------------------------------------------------ fetch_emails
\* SELECT * FROM emails, or SELECT e.* FROM emails e JOIN contact_emails ce
\*   JOIN contacts c WHERE c.name IN (...)
fetch_emails(s, names) ==
    IF names = {} THEN s.emails
    ELSE {e \in s.emails :
            \E l \in s.contact_emails, c \in s.contacts :
                /\ l.email_id = e.id /\ l.contact_id = c.id
                /\ c.name \in names}

\* ------------------------------------------------------------------ fetch_emails_with_contacts
\* WITH email_ids AS (SELECT DISTINCT e.id FROM emails e JOIN contact_emails ce
\*   JOIN contacts c WHERE c.name IN (...))
email_ids(s, names) ==
    {e.id : e \in {x \in s.emails :
                     \E l \in s.contact_emails, c \in s.contacts :
                         /\ l.email_id = x.id /\ l.contact_id = c.id
                         /\ c.name \in names}}

\* the rows of emails e JOIN contact_emails ce JOIN contacts c JOIN contact_methods cm
\* WHERE cm.method_type = 'email' that belong to one email, each as the
\* json_build_object('name', c.name, 'email', cm.value) it contributes to array_agg
ContactsData(s, e) ==
    {[name |-> cc[1].name, email |-> cc[2].value,
      contact_id |-> cc[1].id, method_id |-> cc[2].id] :
        cc \in {x \in s.contacts \X s.contact_methods :
                  /\ \E l \in s.contact_emails :
                        l.email_id = e.id /\ l.contact_id = x[1].id
                  /\ x[2].contact_id = x[1].id
                  /\ x[2].method_type = "email"}}

\* the (email_record, contacts_list) pairs yielded: one per group of the joined
\* rows, so an email without a joined row yields nothing
fetch_emails_with_contacts(s, names) ==
    {[id |-> e.id, date |-> e.date, summary |-> e.summary, content |-> e.content,
      contacts |-> ContactsData(s, e)] :
        e \in {x \in s.emails :
                 /\ names # {} => x.id \in email_ids(s, names)
                 /\ ContactsData(s, x) # {}}}

\* GET /emails: the emails of fetch_emails_with_contacts, answered 200
get_emails(s, names) ==
    {Outcome(s, "ok", 200, <<>>, Cardinality(fetch_emails_with_contacts(s, names)))}

GetEmails(names) ==
    \E o \in get_emails(Cur, names) : Apply("get_emails", o)

\* ------------------------------------------------------------------ ContactService
\* ContactMethod.query.filter_by(method_type=method["type"], value=method["value"])
ExistingMethod(s, method) ==
    {m \in s.contact_methods :
        m.method_type = method.type /\ m.value = method.value}

\* the validation loop: index of the first method that has an existing_method, or 0
FirstExisting(s, methods) ==
    LET hit == {i \in DOMAIN methods : ExistingMethod(s, methods[i]) # {}}
    IN IF hit = {} THEN 0 ELSE Min(hit)

AlreadyAssociated == <<"is", "already", "associated", "with", "another", "contact">>

\* f"Contact method {method['type']}:{method['value']} is already associated
\* with another contact"
AssociatedMessage(method) ==
    <<"Contact", "method", method.type>> \o method.value \o AlreadyAssociated

\* a key that the JSON object does not have
Absent == <<"<absent>">>

\* datetime.fromisoformat(text).date(): the date, or BadDate when it raises
fromisoformat(text) ==
    CASE text = <<"2024-01-01">> -> 1
      [] text = <<"2024-01-02">> -> 2
      [] OTHER -> BadDate

\* ValueError(f"Invalid isoformat string: {text!r}")
InvalidIso(text) == <<"Invalid", "isoformat", "string">> \o text

\* contact_data.get(key) is truthy
Given(text) == text # Absent /\ Truthy(text)

\* create_contact with the last_contacted text of the contact data
\* (follow_up_date is parsed in the same way, right after it)
create_contact_from(s, name, methods, company, last_contacted) ==
    LET dup == FirstExisting(s, methods)
        cid == s.contact_seq + 1
        rows == NewMethodRows(cid, methods)
    IN
    IF methods = <<>>
    THEN {Outcome(s, "ValueError", 0,
                  <<"At", "least", "one", "contact", "method", "is", "required">>, 0)}
    ELSE IF dup # 0
    THEN {Outcome(s, "ValueError", 0, AssociatedMessage(methods[dup]), 0)}
    ELSE IF Given(last_contacted) /\ fromisoformat(last_contacted) = BadDate
    THEN {Outcome(s, "ValueError", 0, InvalidIso(last_contacted), 0)}
    ELSE IF ~UniqueContactValue(s.contact_methods \cup rows)
    THEN \* IntegrityError at the commit: rollback, re-raised
         {Outcome(s, "IntegrityError", 0, <<>>, 0)}
    ELSE {Outcome([s EXCEPT
                     !.contacts = @ \cup
                         {[id |-> cid, name |-> name, company |-> company,
                           last_contacted |->
                               IF Given(last_contacted)
                               THEN fromisoformat(last_contacted) ELSE NoDate]},
                     !.contact_methods = @ \cup rows,
                     !.contact_seq = cid],
                  "ok", 0, <<>>, cid)}

\* create_contact for contact data without last_contacted
create_contact(s, name, methods, company) ==
    create_contact_from(s, name, methods, company, Absent)

CreateContact(name, methods, company) ==
    \E o \in create_contact(Cur, name, methods, company) :
        /\ o.status = "ok" => contact_seq < MaxContacts
        /\ Apply("create_contact", o)

\* the look-up does not ask for method_type == "email"
get_contact_by_email_AnyType(s, email) ==
    {c \in s.contacts :
        \E m \in s.contact_methods : m.contact_id = c.id /\ m.value = email}

\* Contact.query.join(Contact.contact_methods).filter(method_type == "email",
\* value == email): the rows .first() may return
get_contact_by_email(s, email) ==
    {c \in s.contacts :
        \E m \in s.contact_methods :
            m.contact_id = c.id /\ m.method_type = "email" /\ m.value = email}

\* the session's delete of a Contact leaves its rows of the secondary table
DeleteFromSession_KeepLinks(s, c) ==
    [s EXCEPT !.contact_methods = {m \in @ : m.contact_id # c.id},
              !.emails = {IF e.sender_id = c.id THEN [e EXCEPT !.sender_id = 0] ELSE e :
                             e \in @},
              !.contacts = {x \in @ : x.id # c.id}]

\* ContactMethod.query.filter_by(contact_id=contact.id).delete() and
\* db.session.delete(contact): the rows of the secondary table contact_emails go
\* with the contact, and Email.sender_id of the emails it sent is set to null
DeleteFromSession(s, c) ==
    [s EXCEPT !.contact_methods = {m \in @ : m.contact_id # c.id},
              !.contact_emails = {l \in @ : l.contact_id # c.id},
              !.emails = {IF e.sender_id = c.id THEN [e EXCEPT !.sender_id = 0] ELSE e :
                             e \in @},
              !.contacts = {x \in @ : x.id # c.id}]

delete_contact_by_email(s, email) ==
    IF get_contact_by_email(s, email) = {}
    THEN {Outcome(s, "False", 0, <<>>, 0)}
    ELSE {Outcome(DeleteFromSession(s, c), "True", 0, <<>>, c.id) :
            c \in get_contact_by_email(s, email)}

\* DELETE /contacts/<email> of the ORM API: NotFoundError when the service
\* returns False
routes_delete_contact(s, email) ==
    {[o EXCEPT !.http = IF o.status = "True" THEN 200 ELSE 404] :
        o \in delete_contact_by_email(s, email)}

DeleteContactByEmail(email) ==
    \E o \in routes_delete_contact(Cur, email) :
        Apply("delete_contact_by_email", o)

\* ------------------------------------------------------------------ ContactService.get_contacts
\* lower case of a character (here: of a word)
LowerWord(w) ==
    CASE w = "Ann" -> "ann"
      [] w = "Lee" -> "lee"
      [] w = "LEE" -> "lee"
      [] w = "Bob" -> "bob"
      [] w = "Acme" -> "acme"
      [] w = "ACME" -> "acme"
      [] w = "A@X.COM" -> "a@x.com"
      [] OTHER -> w

Lower(text) == [i \in DOMAIN text |-> LowerWord(text[i])]

\* SQL's text ILIKE pattern: % stands for any run of characters, _ for any one
\* character, every other character for itself in either case
RECURSIVE Like(_, _)
Like(text, pattern) ==
    IF pattern = <<>> THEN text = <<>>
    ELSE IF Head(pattern) = "%"
    THEN Like(text, Tail(pattern)) \/ (text # <<>> /\ Like(Tail(text), pattern))
    ELSE /\ text # <<>>
         /\ Head(pattern) = "_" \/ LowerWord(Head(pattern)) = LowerWord(Head(text))
         /\ Like(Tail(text), Tail(pattern))

\* column.ilike(f"%{x}%"): a null column matches nothing
ilike(column, x) == column # NULL /\ Like(column, <<"%">> \o x \o <<"%">>)

\* query.all() of the filters that are truthy; the Query returns each Contact once
get_contacts(s, name, email, company) ==
    {c \in s.contacts :
        /\ Truthy(name) => ilike(c.name, name)
        /\ Truthy(company) => ilike(c.company, company)
        /\ Truthy(email) =>
              \E m \in s.contact_methods :
                  /\ m.contact_id = c.id
                  /\ m.method_type = "email"
                  /\ ilike(m.value, email)}

GetContacts(name, email, company) ==
    Apply("get_contacts",
          Outcome(Cur, "ok", 200, <<>>, Cardinality(get_contacts(Cur, name, email, company))))

\* ------------------------------------------------------------------ EmailService
\* the account whose mailbox is read (EmailService.user_emails)
UserEmail == <<"me@x.com">>

\* one contact per recipient address that has one: the recipient_contacts list
RecipientContacts(s, to_emails) ==
    LET hit == {r \in to_emails : get_contact_by_email(s, r) # {}}
    IN {{f[r] : r \in hit} :
          f \in {g \in [hit -> s.contacts] :
                    \A r \in hit : g[r] \in get_contact_by_email(s, r)}}

\* the Email the loop adds to the session, its sender and its contacts
NewEmail(s, date, content, sender, linked) ==
    [s EXCEPT !.emails = @ \cup {[id |-> s.email_seq + 1, date |-> date,
                                  summary |-> <<>>, content |-> content,
                                  sender_id |-> sender]},
              !.email_seq = @ + 1,
              !.contact_emails =
                  LinkContacts(@, linked \cup {sender}, s.email_seq + 1)]

\* the special contact created for a sender that no contact holds
UserContact(s, from_email) ==
    [s EXCEPT !.contacts = @ \cup
                  {[id |-> s.contact_seq + 1, name |-> <<"User">>, company |-> NULL,
                    last_contacted |-> NoDate]},
              !.contact_methods = @ \cup
                  NewMethodRows(s.contact_seq + 1,
                                <<[type |-> "email", value |-> from_email]>>),
              !.contact_seq = @ + 1]

\* save_emails_to_db for a list of one email; has_id says whether the email
\* carries a message_id
save_emails_to_db(s, has_id, from_email, to_emails, date, content) ==
    LET senders == IF from_email # UserEmail
                   THEN get_contact_by_email(s, from_email) ELSE {}
        user == get_contact_by_email(s, from_email)
    IN
    IF date = NoDate
    THEN \* skipped: nothing to commit
         {Outcome(s, "skipped", 0, <<>>, 0)}
    ELSE IF has_id
    THEN \* Email has no message_id attribute: filter_by raises
         {Outcome(s, "InvalidRequestError", 0, <<>>, 0)}
    ELSE IF senders = {} /\ \A r \in to_emails : get_contact_by_email(s, r) = {}
    THEN \* filtered_out is read before it is assigned
         {Outcome(s, "UnboundLocalError", 0, <<>>, 0)}
    ELSE IF date = BadDate
    THEN \* strptime raises ValueError: the email is counted as failed
         {Outcome(s, "failed", 0, <<>>, 0)}
    ELSE IF senders # {}
    THEN {Outcome(NewEmail(s, date, content, c.id, {r.id : r \in R}),
                  "saved", 0, <<>>, s.email_seq + 1) :
            c \in senders, R \in RecipientContacts(s, to_emails)}
    ELSE IF user # {}
    THEN {Outcome(NewEmail(s, date, content, c.id, {r.id : r \in R}),
                  "saved", 0, <<>>, s.email_seq + 1) :
            c \in user, R \in RecipientContacts(s, to_emails)}
    ELSE {Outcome(NewEmail(UserContact(s, from_email), date, content,
                           s.contact_seq + 1, {r.id : r \in R}),
                  "saved", 0, <<>>, s.email_seq + 1) :
            R \in RecipientContacts(s, to_emails)}

SaveEmailsToDb(has_id, from_email, to_emails, date, content) ==
    \E o \in save_emails_to_db(Cur, has_id, from_email, to_emails, date, content) :
        /\ o.status = "saved" => email_seq < MaxEmails /\ o.contact_seq <= MaxContacts
        /\ Apply("save_emails_to_db", o)


\* ------------------------------------------------------------------ save_emails_to_db, a batch
\* the store of an outcome
StoreOf(o) ==
    [contacts |-> o.contacts, contact_methods |-> o.contact_methods,
     emails |-> o.emails, contact_emails |-> o.contact_emails,
     contact_seq |-> o.contact_seq, email_seq |-> o.email_seq]

\* the end of a call: how it ended, the store it leaves, and the counts it returns
BatchOutcome(s, status, saved, skipped, failed) ==
    Outcome(s, status, 0, <<>>, 0)
        @@ [saved |-> saved, skipped |-> skipped, failed |-> failed]

\* the rollback keeps the contact and contact method that were flushed
Rollback_KeepFlushed(s0, s) ==
    [s0 EXCEPT !.contacts = s.contacts, !.contact_methods = s.contact_methods,
               !.contact_seq = s.contact_seq]

\* db.session.rollback(): the store as it was when the call began (s0), whatever
\* the session holds (s)
Rollback(s0, s) == s0

\* the loop from the entry at the head of batch on, with the session in s and the
\* counters so far, and then the commit, which succeeds or raises.  The queries
\* of an entry see what the earlier entries added (autoflush).  An exception
\* other than ValueError and KeyError leaves the loop and the call; nothing of
\* the session is committed.
RECURSIVE save_emails_from(_, _, _, _, _)
save_emails_from(s0, s, batch, saved, failed) ==
    IF batch = <<>>
    THEN {BatchOutcome(s, "returned", saved, 0, failed),
          BatchOutcome(Rollback(s0, s), "RuntimeError", 0, 0, 0)}
    ELSE LET m == Head(batch) IN
         UNION {IF o.status \in {"InvalidRequestError", "UnboundLocalError"}
                THEN {BatchOutcome(s0, o.status, 0, 0, 0)}
                ELSE save_emails_from(s0, StoreOf(o), Tail(batch),
                                      saved + (IF o.status = "saved" THEN 1 ELSE 0),
                                      failed + (IF o.status = "failed" THEN 1 ELSE 0)) :
                  o \in save_emails_to_db(s, m[1], m[2], m[3], m[4], m[5])}

\* save_emails_to_db for a list of emails
save_emails_batch(s, batch) == save_emails_from(s, s, batch, 0, 0)

SaveEmailsBatch(batch) ==
    \E o \in save_emails_batch(Cur, batch) :
        /\ o.email_seq <= MaxEmails /\ o.contact_seq <= MaxContacts
        /\ Apply("save_emails_to_db", o)

\* ------------------------------------------------------------------ EmailService.search_emails
\* email_data.get("subject", "No Subject") of the emails saved here, which carry
\* no subject
SubjectOf(e) == <<"No", "Subject">>

\* base_query after the filters that are truthy; is_sender is "True", "False"
\* or "None", and contact_id 0 stands for None
base_query(s, query, contact_id, start_date, end_date, is_sender) ==
    {e \in s.emails :
        /\ Truthy(query) =>
              \/ ilike(SubjectOf(e), query)
              \/ ilike(e.content, query)
              \/ ilike(e.summary, query)
        /\ start_date # NoDate => e.date >= start_date
        /\ end_date # NoDate => e.date <= end_date
        /\ (contact_id # 0 /\ is_sender = "True") => e.sender_id = contact_id}

\* the rows of a set in the orders ORDER BY date DESC may return them
Descending(S) ==
    {f \in [1..Cardinality(S) -> S] :
        /\ \A i, j \in DOMAIN f : f[i] = f[j] => i = j
        /\ \A i, j \in DOMAIN f : i < j => f[i].date >= f[j].date}

\* .offset(offset).limit(n).all() on an ordered result
Page(rows, offset, n) ==
    SubSeq(rows, offset + 1, Min({Len(rows), offset + n}))

\* Python's emails[:limit]
Slice(rows, limit) ==
    IF limit >= 0 THEN SubSeq(rows, 1, Min({Len(rows), limit}))
    ELSE SubSeq(rows, 1, Len(rows) + limit)

\* what search_emails returns, or the error it re-raises: Email.receivers is a
\* Python property, which Query.join refuses; PostgreSQL refuses a negative
\* OFFSET or LIMIT
search_emails(s, query, contact_id, start_date, end_date, is_sender, limit, offset) ==
    LET found == base_query(s, query, contact_id, start_date, end_date, is_sender) IN
    IF contact_id # 0 /\ is_sender # "True"
    THEN {[status |-> "ArgumentError", emails |-> <<>>, total |-> 0, has_more |-> FALSE]}
    ELSE IF offset < 0 \/ limit + 1 < 0
    THEN {[status |-> "DataError", emails |-> <<>>, total |-> 0, has_more |-> FALSE]}
    ELSE {LET fetched == Page(rows, offset, limit + 1)
              has_more == Len(fetched) > limit
          IN [status |-> "ok",
              emails |-> IF has_more THEN Slice(fetched, limit) ELSE fetched,
              total |-> Cardinality(found),
              has_more |-> has_more] :
            rows \in Descending(found)}

SearchEmails(query, contact_id, start_date, end_date, is_sender, limit, offset) ==
    \E r \in search_emails(Cur, query, contact_id, start_date, end_date, is_sender,
                           limit, offset) :
        Apply("search_emails", Outcome(Cur, r.status, 0, <<>>, r.total))

\* ------------------------------------------------------------------ POST /contacts bodies
\* a method that has no "type" key
NoType == "<absent>"

\* the method types the ORM API lets through
ValidTypes == {"email", "phone", "linkedin"}

\* the contact_methods entries as add_contact and create_contact read them
MethodsOfBody(body) ==
    [i \in DOMAIN body.methods |->
        [type |-> body.methods[i].type, value |-> body.methods[i].value]]

\* only the first contact method is validated
InvalidBody_FirstOnly(body) ==
    \/ ~body.has_name
    \/ ~body.has_methods
    \/ body.methods = <<>>
    \/ body.methods[1].type = NoType \/ body.methods[1].type = ""
    \/ body.methods[1].value = Absent \/ body.methods[1].value = <<>>

\* api.add_contact's validation: TRUE when one of its 400 returns is taken
InvalidBody(body) ==
    \/ ~body.has_name
    \/ ~body.has_methods
    \/ body.methods = <<>>
    \/ \E i \in DOMAIN body.methods :
          \/ body.methods[i].type = NoType \/ body.methods[i].type = ""
          \/ body.methods[i].value = Absent \/ body.methods[i].value = <<>>

\* POST /contacts of the raw-SQL API for any JSON object
api_add_contact(s, body) ==
    IF InvalidBody(body)
    THEN {Outcome(s, "BadRequest", 400, <<>>, 0)}
    ELSE add_contact(s, body.name, MethodsOfBody(body), NULL, NoDate)

PostContacts(body) ==
    \E o \in api_add_contact(Cur, body) :
        /\ o.status = "ok" => contact_seq < MaxContacts
        /\ Apply("post_contacts", o)

\* routes.validate_contact_data: TRUE when it raises BadRequestError
validate_contact_data(body) ==
    \/ ~body.has_name
    \/ ~body.has_methods
    \/ body.methods = <<>>
    \/ \E i \in DOMAIN body.methods :
          \/ body.methods[i].type = NoType \/ body.methods[i].value = Absent
          \/ body.methods[i].type \notin ValidTypes

\* routes.create_contact's mapping of the service's outcome to a status
CreateContactStatus(status, msg) ==
    IF status = "ok" THEN 201
    ELSE IF status = "ValueError"
    THEN (IF Contains(msg, AlreadyAssociated) THEN 409 ELSE 400)
    ELSE 500

\* POST /contacts of the ORM API for any JSON object
routes_create_contact(s, body) ==
    IF validate_contact_data(body)
    THEN {Outcome(s, "BadRequest", 400, <<>>, 0)}
    ELSE {[o EXCEPT !.http = CreateContactStatus(o.status, o.msg)] :
            o \in create_contact_from(s, body.name, MethodsOfBody(body), NULL,
                                     body.last_contacted)}

RoutesCreateContact(body) ==
    \E o \in routes_create_contact(Cur, body) :
        /\ o.status = "ok" => contact_seq < MaxContacts
        /\ Apply("post_contacts", o)

\* ------------------------------------------------------------------ transactions
\* Requests in flight at the same time.  Each request has its own connection
\* (api.get_db, the scoped db.session); a statement sees the committed rows and
\* the writes of its own transaction (READ COMMITTED), and a connection closed
\* before its commit leaves the committed tables as they were.

\* every statement is its own transaction
autocommit_On == TRUE

\* psycopg2.connect(...) leaves conn.autocommit off: the first statement opens a
\* transaction that lasts until conn.commit()
autocommit == FALSE

\* the UPDATEs of a transaction applied to contact rows
UpdRows(cs, upd) ==
    {IF \E u \in upd : u.id = c.id
     THEN [c EXCEPT !.last_contacted = (CHOOSE u \in upd : u.id = c.id).date]
     ELSE c : c \in cs}

\* the tables as a statement of the connection record c sees them
Seen(s, c) ==
    [s EXCEPT !.contacts = UpdRows({x \in @ : x.id \notin c.del.contacts}
                                       \cup c.ins.contacts, c.upd),
              !.contact_methods = (@ \ c.del.contact_methods) \cup c.ins.contact_methods,
              !.emails = @ \cup c.ins.emails,
              !.contact_emails = (@ \ c.del.contact_emails) \cup c.ins.contact_emails]

View(k) == Seen(Cur, conns[k])

WriteTables(s) ==
    /\ contacts' = s.contacts
    /\ contact_methods' = s.contact_methods
    /\ emails' = s.emails
    /\ contact_emails' = s.contact_emails

\* one statement of connection k, after which its record is c2
Statement(k, c2) ==
    /\ IF autocommit
       THEN /\ WriteTables(Seen(Cur, c2))
            /\ conns' = [conns EXCEPT ![k] =
                            [c2 EXCEPT !.ins = NoRows, !.del = NoRows, !.upd = {}]]
       ELSE /\ UNCHANGED <<contacts, contact_methods, emails, contact_emails>>
            /\ conns' = [conns EXCEPT ![k] = c2]
    /\ UNCHANGED <<result, store>>

\* the end of the request of connection k: conn.commit() and the response, or an
\* exception or early return, after which close_db closes the connection
Finish(k, status, commit) ==
    /\ IF commit THEN WriteTables(View(k))
       ELSE UNCHANGED <<contacts, contact_methods, emails, contact_emails>>
    /\ conns' = [conns EXCEPT ![k] = Idle]
    /\ result' = [op |-> conns[k].op, status |-> status]
    /\ UNCHANGED <<store, contact_seq, email_seq>>

Others(k) == Conn \ {k}

\* another open transaction has updated or deleted the contact row
ContactWriteLocked(k, id) ==
    \E j \in Others(k) :
        id \in conns[j].del.contacts \/ \E u \in conns[j].upd : u.id = id

\* another open transaction has inserted a contact_emails row that references
\* the contact row (the foreign key's lock on the referenced row)
ContactKeyShared(k, id) ==
    \E j \in Others(k) : \E l \in conns[j].ins.contact_emails : l.contact_id = id

\* POST /contacts arrives: add_contact of the raw-SQL API, create_contact of the ORM
TxnAddContact(k, a) ==
    /\ conns[k].op = "idle"
    /\ conns' = [conns EXCEPT ![k] =
                    [Idle EXCEPT !.op = IF store = "sql" THEN "add_contact"
                                        ELSE "create_contact",
                                 !.pc = "check", !.req = a, !.i = 1]]
    /\ UNCHANGED <<contacts, contact_methods, emails, contact_emails,
                   contact_seq, email_seq, result, store>>

\* one turn of the duplicate check loop: the SELECT for method i
TxnCheck(k) ==
    LET c == conns[k]
        methods == c.req[2]
        held == IF store = "sql" THEN OwnersOf(View(k), methods[c.i]) # {}
                ELSE ExistingMethod(View(k), methods[c.i]) # {}
        last == c.i = Len(methods)
    IN /\ c.pc = "check"
       /\ IF held THEN Finish(k, "ValueError", FALSE)
          ELSE /\ Statement(k, [c EXCEPT !.i = IF last THEN 1 ELSE c.i + 1,
                                         !.pc = IF last THEN "contact" ELSE "check"])
               /\ UNCHANGED <<contact_seq, email_seq>>

\* INSERT INTO contacts ... RETURNING id
TxnInsertContact(k) ==
    LET c == conns[k]
        row == [id |-> contact_seq + 1, name |-> c.req[1],
                company |-> NanToNone(c.req[3]),
                last_contacted |-> IF store = "sql" THEN NanToNoDate(c.req[4])
                                   ELSE NoDate]
    IN /\ c.pc = "contact"
       /\ contact_seq < MaxContacts
       /\ Statement(k, [c EXCEPT !.cid = contact_seq + 1,
                                 !.ins.contacts = @ \cup {row},
                                 !.pc = "methods", !.i = 1])
       /\ contact_seq' = contact_seq + 1
       /\ UNCHANGED email_seq

\* one turn of the second loop: INSERT INTO contact_methods for method i
TxnInsertMethod(k) ==
    LET c == conns[k]
        methods == c.req[2]
        row == CHOOSE r \in NewMethodRows(c.cid, methods) :
                   r.id = c.cid * (MaxMethods + 1) + c.i
        last == c.i = Len(methods)
    IN /\ c.pc = "methods"
       /\ IF ~UniqueContactValue(View(k).contact_methods \cup {row})
          THEN Finish(k, "IntegrityError", FALSE)
          ELSE /\ Statement(k, [c EXCEPT !.ins.contact_methods = @ \cup {row},
                                         !.i = IF last THEN 1 ELSE c.i + 1,
                                         !.pc = IF last THEN "commit" ELSE "methods"])
               /\ UNCHANGED <<contact_seq, email_seq>>

\* DELETE /contacts/<name> arrives
TxnDeleteContact(k, d) ==
    /\ conns[k].op = "idle"
    /\ conns' = [conns EXCEPT ![k] =
                    [Idle EXCEPT !.op = "delete_contact", !.pc = "select", !.req = d]]
    /\ UNCHANGED <<contacts, contact_methods, emails, contact_emails,
                   contact_seq, email_seq, result, store>>

\* the SELECT of delete_contact and its two early returns
TxnSelect(k) ==
    LET c == conns[k]
        found == Matching(View(k), c.req[1], c.req[2], c.req[3])
    IN /\ c.pc = "select"
       /\ IF found = {} THEN Finish(k, "NotFound", FALSE)
          ELSE IF Cardinality(found) > 1 THEN Finish(k, "Multiple", FALSE)
          ELSE /\ Statement(k, [c EXCEPT !.cid = (CHOOSE x \in found : TRUE).id,
                                         !.pc = "delete_links"])
               /\ UNCHANGED <<contact_seq, email_seq>>

\* DELETE FROM contact_emails WHERE contact_id = %s
TxnDeleteLinks(k) ==
    LET c == conns[k]
        rows == {l \in View(k).contact_emails : l.contact_id = c.cid}
    IN /\ c.pc = "delete_links"
       /\ \A j \in Others(k) : conns[j].del.contact_emails \cap rows = {}
       /\ Statement(k, [c EXCEPT !.del.contact_emails = @ \cup rows,
                                 !.pc = "delete_methods"])
       /\ UNCHANGED <<contact_seq, email_seq>>

\* DELETE FROM contact_methods WHERE contact_id = %s
TxnDeleteMethods(k) ==
    LET c == conns[k]
        rows == {m \in View(k).contact_methods : m.contact_id = c.cid}
    IN /\ c.pc = "delete_methods"
       /\ \A j \in Others(k) : conns[j].del.contact_methods \cap rows = {}
       /\ Statement(k, [c EXCEPT !.del.contact_methods = @ \cup rows,
                                 !.pc = "delete_contact"])
       /\ UNCHANGED <<contact_seq, email_seq>>

\* DELETE FROM contacts WHERE id = %s, which waits for the transactions that
\* hold the row; the contact_emails rows that reference it go with it
\* (ondelete="CASCADE")
TxnDeleteRow(k) ==
    LET c == conns[k]
        present == \E x \in View(k).contacts : x.id = c.cid
        links == {l \in View(k).contact_emails : l.contact_id = c.cid}
    IN /\ c.pc = "delete_contact"
       /\ ~ContactWriteLocked(k, c.cid)
       /\ ~ContactKeyShared(k, c.cid)
       /\ Statement(k, [c EXCEPT !.del.contacts =
                                     @ \cup (IF present THEN {c.cid} ELSE {}),
                                 !.del.contact_emails =
                                     @ \cup (IF present THEN links ELSE {}),
                                 !.pc = "commit"])
       /\ UNCHANGED <<contact_seq, email_seq>>

\* POST /emails arrives
TxnAddEmail(k, e) ==
    /\ conns[k].op = "idle"
    /\ conns' = [conns EXCEPT ![k] =
                    [Idle EXCEPT !.op = "add_email", !.pc = "existing", !.req = e]]
    /\ UNCHANGED <<contacts, contact_methods, emails, contact_emails,
                   contact_seq, email_seq, result, store>>

\* SELECT id FROM emails WHERE content = %s
TxnExisting(k) ==
    LET c == conns[k]
        existing == ExistingEmail(View(k), Escape(c.req[3]))
    IN /\ c.pc = "existing"
       /\ UNCHANGED <<contact_seq, email_seq>>
       /\ IF existing = {} THEN Statement(k, [c EXCEPT !.pc = "insert_email"])
          ELSE \E x \in existing :
                  Statement(k, [c EXCEPT !.eid = x.id, !.pc = "resolve"])

\* INSERT INTO emails (date, summary, content) ... RETURNING id
TxnInsertEmail(k) ==
    LET c == conns[k]
        row == [id |-> email_seq + 1, date |-> c.req[2],
                summary |-> Escape(c.req[4]), content |-> Escape(c.req[3])]
    IN /\ c.pc = "insert_email"
       /\ IF c.req[2] = BadDate THEN Finish(k, "DataError", FALSE)
          ELSE /\ email_seq < MaxEmails
               /\ Statement(k, [c EXCEPT !.eid = email_seq + 1,
                                         !.ins.emails = @ \cup {row},
                                         !.pc = "resolve"])
               /\ email_seq' = email_seq + 1
               /\ UNCHANGED contact_seq

\* SELECT DISTINCT c.id ... WHERE cm.value IN (...)
TxnResolve(k) ==
    LET c == conns[k]
        ids == ResolveContacts(View(k), c.req[1])
    IN /\ c.pc = "resolve"
       /\ IF c.req[1] = {} THEN Finish(k, "SyntaxError", FALSE)
          ELSE /\ Statement(k, [c EXCEPT !.ids = ids, !.todo = ids,
                                         !.pc = IF ids = {} THEN "commit" ELSE "link"])
               /\ UNCHANGED <<contact_seq, email_seq>>

\* INSERT INTO contact_emails ... ON CONFLICT DO NOTHING for the next contact id;
\* it waits for a transaction that has deleted the contact row or inserted the
\* same pair, and fails on the foreign key when the contact row is gone
TxnLink(k) ==
    LET c == conns[k] IN
    /\ c.pc = "link"
    /\ \E id \in c.todo :
          LET link == [contact_id |-> id, email_id |-> c.eid] IN
          /\ \A j \in Others(k) :
                id \notin conns[j].del.contacts /\ link \notin conns[j].ins.contact_emails
          /\ IF id \notin {x.id : x \in View(k).contacts}
             THEN Finish(k, "IntegrityError", FALSE)
             ELSE /\ Statement(k, [c EXCEPT !.ins.contact_emails =
                                                LinkContacts(@, {id}, c.eid) \ contact_emails,
                                            !.cid = id, !.pc = "bump"])
                  /\ UNCHANGED <<contact_seq, email_seq>>

\* UPDATE contacts SET last_contacted = %s WHERE id = %s AND (...) for the same id
TxnBump(k) ==
    LET c == conns[k]
        date == c.req[2]
        changed == BumpLastContacted(View(k).contacts, {c.cid}, date) # View(k).contacts
        todo == c.todo \ {c.cid}
    IN /\ c.pc = "bump"
       /\ IF date = BadDate THEN Finish(k, "DataError", FALSE)
          ELSE /\ ~ContactWriteLocked(k, c.cid)
               /\ Statement(k, [c EXCEPT !.upd =
                                     IF changed
                                     THEN {u \in @ : u.id # c.cid}
                                              \cup {[id |-> c.cid, date |-> date]}
                                     ELSE @,
                                         !.todo = todo,
                                         !.pc = IF todo = {} THEN "commit" ELSE "link"])
               /\ UNCHANGED <<contact_seq, email_seq>>

\* self.conn.commit() / db.session.commit(), and the response
TxnCommit(k) ==
    /\ conns[k].pc = "commit"
    /\ Finish(k, "ok", TRUE)

\* the request dies at the statement it has reached (the server is gone, the
\* statement is cancelled, the worker is killed): the connection is closed
TxnFail(k) ==
    /\ conns[k].op # "idle"
    /\ Finish(k, "failed", FALSE)

\* ------------------------------------------------------------------ requests
\* POST /contacts bodies
ContactRequests ==
    Names \X MethodLists \X (Companies \cup {NULL, NanText}) \X {NanDate}

\* what a DELETE request may carry as contact_info and as company
InfoTexts == Values \cup {NULL, MultipleFound}
CompanyTexts == Companies \cup {NULL, MultipleFound}
DeleteRequests == Names \X InfoTexts \X CompanyTexts

\* what a caller may name as a contact of an email
Entries == Values \cup {<<"Ann">>}
EmailRequests == (SUBSET Entries) \X (Dates \cup {BadDate}) \X Contents \X Summaries

\* the contacts parameters of GET /emails: names and addresses
Filters == SUBSET {<<"Ann">>, <<"Bob">>, <<"a@x.com">>}

\* the contact-centred universe: every contact request, one email body
OneEmail == {e \in EmailRequests : e[2] = 1 /\ e[3] = <<"hello">> /\ e[4] = <<>>}

Next ==
    \/ \E a \in ContactRequests : AddContact(a[1], a[2], a[3], a[4])
    \/ \E d \in DeleteRequests : DeleteContact(d[1], d[2], d[3])
    \/ \E e \in OneEmail : AddEmail(e[1], e[2], e[3], e[4])
    \/ \E contact_id \in 1..MaxContacts, e \in {x \in OneEmail : x[1] = {}} :
          UpdateEmailsForContact(contact_id, e[2], e[3], e[4])
    \/ \E names \in Filters : GetEmails(names)

Spec == Init /\ [][Next]_vars

\* the email-centred universe: every email request, contacts of one name
PlainContacts ==
    {a \in ContactRequests :
        /\ a[1] = <<"Ann">> /\ a[3] = NULL
        /\ \A i \in DOMAIN a[2] : a[2][i].type = "email"}
PlainDeletes == {d \in DeleteRequests : d[1] = <<"Ann">> /\ d[3] = NULL}
PlainEmails == {e \in EmailRequests : e[4] = <<>>}

NextEmail ==
    \/ \E a \in PlainContacts : AddContact(a[1], a[2], a[3], a[4])
    \/ \E d \in PlainDeletes : DeleteContact(d[1], d[2], d[3])
    \/ \E e \in PlainEmails : AddEmail(e[1], e[2], e[3], e[4])
    \/ \E contact_id \in 1..MaxContacts, e \in {x \in PlainEmails : x[1] = {}} :
          UpdateEmailsForContact(contact_id, e[2], e[3], e[4])
    \/ \E names \in Filters : GetEmails(names)

SpecEmail == Init /\ [][NextEmail]_vars

\* the ORM store: contacts of one company, emails of one content
ServiceContacts == {a \in ContactRequests : a[3] = NULL}
MailRequests ==
    BOOLEAN \X (Values \cup {UserEmail}) \X (SUBSET Values)
        \X {NoDate, BadDate, 1} \X {<<"hello">>}

NextORM ==
    \/ \E a \in ServiceContacts : CreateContact(a[1], a[2], a[3])
    \/ \E email \in Values \cup {UserEmail} : DeleteContactByEmail(email)
    \/ \E m \in MailRequests : SaveEmailsToDb(m[1], m[2], m[3], m[4], m[5])

SpecORM == InitORM /\ [][NextORM]_vars

\* the contact service: contacts with full names and companies, and the filters
\* of get_contacts
FullNames == {<<"Ann", "Lee">>, <<"Bob">>}
NamedContacts == FullNames \X (MethodLists \ {<<>>}) \X (Companies \cup {NULL})
NameFilters == {NULL, <<>>, <<"ann">>, <<"LEE">>, <<"ann", "lee">>, <<"_">>}
EmailFilters == {NULL, <<"A@X.COM">>, <<"b@x.com">>, <<"%">>}
CompanyFilters == {NULL, <<"ACME">>, <<"_">>}
ContactFilters == NameFilters \X EmailFilters \X CompanyFilters

NextService ==
    \/ \E a \in NamedContacts : CreateContact(a[1], a[2], a[3])
    \/ \E email \in Values : DeleteContactByEmail(email)
    \/ \E f \in ContactFilters : GetContacts(f[1], f[2], f[3])

SpecService == InitORM /\ [][NextService]_vars

\* the JSON objects posted to /contacts, well-formed or not
BodyMethod == [type : {NoType, "email", "fax"}, value : Values \cup {Absent, <<>>}]
BodyMethodLists == UNION {[1..n -> BodyMethod] : n \in 0..MaxMethods}
Bodies ==
    [has_name : BOOLEAN, name : {<<"Ann">>}, has_methods : BOOLEAN,
     methods : BodyMethodLists, last_contacted : {Absent}]

NextForms ==
    \/ store = "sql" /\ \E body \in Bodies : PostContacts(body)
    \/ store = "orm" /\ \E body \in Bodies : RoutesCreateContact(body)

SpecForms == (Init \/ InitORM) /\ [][NextForms]_vars

\* requests in flight together: contacts of one name, deletes by name and by
\* address, emails of one content
TxnContacts ==
    {a \in PlainContacts :
        a[2] \in {<<[type |-> "email", value |-> <<"a@x.com">>],
                    [type |-> "email", value |-> <<"b@x.com">>]>>,
                  <<[type |-> "email", value |-> <<"b@x.com">>],
                    [type |-> "email", value |-> <<"b@x.com">>]>>}}
TxnDeletes == {d \in PlainDeletes : d[2] = NULL}
TxnEmails ==
    {e \in PlainEmails :
        /\ e[3] = <<"hello">>
        /\ <<e[1], e[2]>> \in {<<{}, 1>>, <<{<<"a@x.com">>}, BadDate>>,
                                <<{<<"a@x.com">>, <<"b@x.com">>}, 1>>}}

NextTxn ==
    \E k \in Conn :
        \/ \E a \in TxnContacts : TxnAddContact(k, a)
        \/ TxnCheck(k)
        \/ TxnInsertContact(k)
        \/ TxnInsertMethod(k)
        \/ store = "sql" /\ \E d \in TxnDeletes : TxnDeleteContact(k, d)
        \/ TxnSelect(k)
        \/ TxnDeleteLinks(k)
        \/ TxnDeleteMethods(k)
        \/ TxnDeleteRow(k)
        \/ store = "sql" /\ \E e \in TxnEmails : TxnAddEmail(k, e)
        \/ TxnExisting(k)
        \/ TxnInsertEmail(k)
        \/ TxnResolve(k)
        \/ TxnLink(k)
        \/ TxnBump(k)
        \/ TxnCommit(k)
        \/ TxnFail(k)

SpecTxn == (Init \/ InitORM) /\ [][NextTxn]_vars

\* POST /contacts of the ORM API with a last_contacted text: a date, a text that
\* is no date, and a text that is no date and reads like the duplicate error
IsoTexts == {Absent, <<"2024-01-01">>, <<"soon">>, AlreadyAssociated}
DatedBodies ==
    [has_name : {TRUE}, name : {<<"Ann">>}, has_methods : {TRUE},
     methods : MethodLists \ {<<>>}, last_contacted : IsoTexts]

NextDated ==
    \/ \E body \in DatedBodies : RoutesCreateContact(body)
    \/ \E email \in Values : DeleteContactByEmail(email)

SpecDated == InitORM /\ [][NextDated]_vars

\* the mailbox and its searches: emails of either date, and the parameters of
\* GET /emails/search
DatedMails ==
    {FALSE} \X (Values \cup {UserEmail}) \X (SUBSET Values) \X Dates \X {<<"hello">>}
Limits == -2..MaxEmails
Offsets == -1..MaxEmails
Searches ==
    ({NULL} \X {0} \X {NoDate} \X {NoDate} \X {"None"} \X Limits \X Offsets)
    \cup ({NULL, <<"HELLO">>, <<"bye">>} \X (0..1) \X {NoDate, MaxDate} \X {NoDate, 1}
              \X {"None", "True", "False"} \X {1} \X {0})

NextSearch ==
    \/ \E a \in PlainContacts : CreateContact(a[1], a[2], a[3])
    \/ \E m \in DatedMails : SaveEmailsToDb(m[1], m[2], m[3], m[4], m[5])
    \/ \E q \in Searches : SearchEmails(q[1], q[2], q[3], q[4], q[5], q[6], q[7])

SpecSearch == InitORM /\ [][NextSearch]_vars

\* the mailbox read in batches: entries from a contact's address, an unknown
\* address or the user's, to nobody or to one address, with a date, a date that
\* does not parse or none, and one entry that carries a message id
BatchEntries ==
    {m \in MailRequests :
        /\ m[3] \in {{}, {<<"a@x.com">>}}
        /\ m[1] => (m[2] = <<"a@x.com">> /\ m[3] = {} /\ m[4] = 1)}
Batches == UNION {[1..n -> BatchEntries] : n \in 1..MaxBatch}

NextBatch ==
    \/ \E a \in PlainContacts : CreateContact(a[1], a[2], a[3])
    \/ \E batch \in Batches : SaveEmailsBatch(batch)

SpecBatch == InitORM /\ [][NextBatch]_vars

\* either store
NextBoth == (store = "sql" /\ NextEmail) \/ (store = "orm" /\ NextORM)

SpecBoth == (Init \/ InitORM) /\ [][NextBoth]_vars

\* ================================================================== claims

ValueStored(v) == \E m \in contact_methods : m.value = v

C2_DuplicateRejected ==
    \A a \in ContactRequests :
        (\E i \in DOMAIN a[2] : ValueStored(a[2][i].value)) =>
            LET db == add_contact(Cur, a[1], a[2], a[3], a[4])
                api == post_contacts(Cur, a[1], a[2], a[3], a[4])
            IN /\ db # {} /\ api # {}
               /\ \A o \in db : o.status = "ValueError" /\ SameTables(Cur, o)
               /\ \A o \in api : o.http = 400 /\ SameTables(Cur, o)

\* a request was rejected as a duplicate while a request whose first value is
\* free and whose second value is stored can be made
C2_Witness ==
    /\ result = [op |-> "add_contact", status |-> "ValueError"]
    /\ \E a \in ContactRequests :
          /\ Len(a[2]) = 2
          /\ ~ValueStored(a[2][1].value)
          /\ ValueStored(a[2][2].value)

\* C3: ContactService.create_contact fails with the duplicate ValueError and
\* persists nothing whenever any supplied method's value is held by an existing
\* ContactMethod row, whatever the method_type of the row and of the method.
C3_DuplicateValueRejected ==
    store = "orm" =>
        \A a \in ServiceContacts :
            (\E i \in DOMAIN a[2] : ValueStored(a[2][i].value)) =>
                \A o \in create_contact(Cur, a[1], a[2], a[3]) :
                    /\ o.status = "ValueError"
                    /\ Contains(o.msg, AlreadyAssociated)
                    /\ SameTables(Cur, o)

\* the same when the value is held by a row of the supplied method_type
C3_DuplicateMethodRejected ==
    store = "orm" =>
        \A a \in ServiceContacts :
            (\E i \in DOMAIN a[2] : ExistingMethod(Cur, a[2][i]) # {}) =>
                \A o \in create_contact(Cur, a[1], a[2], a[3]) :
                    /\ o.status = "ValueError"
                    /\ Contains(o.msg, AlreadyAssociated)
                    /\ SameTables(Cur, o)

\* the duplicate error of a request, in the store at hand
DuplicateErrors(a) ==
    {o \in (IF store = "sql" THEN add_contact(Cur, a[1], a[2], a[3], a[4])
                             ELSE create_contact(Cur, a[1], a[2], a[3])) :
        o.status = "ValueError" /\ a[2] # <<>>}

\* a message names a method of the request, its type, and a contact holding it
NamesOwner(msg, methods) ==
    \E i \in DOMAIN methods, m \in contact_methods, c \in contacts :
        /\ m.value = methods[i].value /\ c.id = m.contact_id
        /\ Contains(msg, m.value)
        /\ Contains(msg, <<m.method_type>>)
        /\ Contains(msg, c.name)
        /\ Truthy(c.company) => Contains(msg, c.company)

\* C4: in add_contact and in create_contact alike, the error of a duplicate value
\* identifies the value, its type, and the name (and company, when set) of the
\* existing contact that holds it.
C4_ErrorNamesOwner ==
    \A a \in ContactRequests : \A o \in DuplicateErrors(a) : NamesOwner(o.msg, a[2])

\* the same for the raw-SQL store alone
C4_ErrorNamesOwnerSql ==
    store = "sql" =>
        \A a \in ContactRequests : \A o \in DuplicateErrors(a) : NamesOwner(o.msg, a[2])

\* the contacts a DELETE request (name, contact_info, company) is about
Candidates(d) ==
    {c \in contacts :
        /\ c.name = d[1]
        /\ (d[3] = NULL \/ c.company = d[3])
        /\ (d[2] = NULL \/ \E m \in contact_methods :
                                m.contact_id = c.id /\ m.value = d[2])}

MethodsOf(s, c) == {m \in s.contact_methods : m.contact_id = c.id}
LinksOf(s, c) == {l \in s.contact_emails : l.contact_id = c.id}
LinkedTo(s, email_id) == {l.contact_id : l \in {x \in s.contact_emails : x.email_id = email_id}}

\* C5: delete_contact has three outcomes, decided by the number n of candidates:
\* n = 0 returns (False, "Contact not found..."), n > 1 returns (False, "Multiple
\* contacts found..." listing each candidate's company and methods), n = 1 deletes
\* that contact and returns (True, None).
C5_ThreeOutcomes ==
    \A d \in DeleteRequests :
        LET cand == Candidates(d)
            n == Cardinality(cand)
            outs == delete_contact(Cur, d[1], d[2], d[3])
        IN /\ outs # {}
           /\ \A o \in outs :
                /\ n = 0 => o.status = "NotFound" /\ StartsWith(o.msg, NotFoundText)
                /\ n > 1 =>
                      /\ o.status = "Multiple"
                      /\ StartsWith(o.msg, MultipleFound)
                      /\ \A c \in cand :
                            /\ Truthy(c.company) => Contains(o.msg, c.company)
                            /\ \A m \in MethodsOf(Cur, c) :
                                  Contains(o.msg, <<m.method_type>> \o m.value)
                /\ n = 1 =>
                      /\ o.status = "True" /\ o.msg = NULL
                      /\ cand \cap o.contacts = {}

\* two contacts of one name are stored, one of them with a company, and a delete
\* has just been refused as ambiguous
C5_Witness ==
    /\ result = [op |-> "delete_contact", status |-> "Multiple"]
    /\ \E c1, c2 \in contacts :
          c1.id # c2.id /\ c1.name = c2.name /\ c1.company # c2.company

\* C6: a delete_contact that ends not-found or ambiguous leaves every table
\* unchanged; a successful one removes exactly the unique match with its own
\* contact_methods and contact_emails rows, and nothing else.
C6_DeleteFrame ==
    \A d \in DeleteRequests :
        \A o \in delete_contact(Cur, d[1], d[2], d[3]) :
            /\ o.status \in {"NotFound", "Multiple"} => SameTables(Cur, o)
            /\ o.status = "True" =>
                  \E c \in Candidates(d) :
                      /\ o.contacts = contacts \ {c}
                      /\ o.contact_methods = contact_methods \ MethodsOf(Cur, c)
                      /\ o.contact_emails = contact_emails \ LinksOf(Cur, c)
                      /\ o.emails = emails

\* a contact has just been deleted while the other contact ever created, with a
\* method and a link of its own, is still stored
C6_Witness ==
    /\ result = [op |-> "delete_contact", status |-> "True"]
    /\ \E c \in contacts :
          /\ MethodsOf(Cur, c) # {} /\ LinksOf(Cur, c) # {}
          /\ contact_seq = MaxContacts

\* C7: DELETE /contacts/<name> answers 404 exactly when no contact matches, 409
\* exactly when more than one matches and 200 exactly when one matches, for
\* every name, company and contact_info.
C7_StatusByCount ==
    \A d \in DeleteRequests :
        LET n == Cardinality(Candidates(d)) IN
        \A o \in delete_contact(Cur, d[1], d[2], d[3]) :
            /\ o.http = 404 <=> n = 0
            /\ o.http = 409 <=> n > 1
            /\ o.http = 200 <=> n = 1

\* the same, for requests whose company and contact_info do not hold the phrase
\* "Multiple contacts found"
C7_StatusByCountPlain ==
    \A d \in DeleteRequests :
        (~Contains(d[2], MultipleFound) /\ ~Contains(d[3], MultipleFound)) =>
            LET n == Cardinality(Candidates(d)) IN
            \A o \in delete_contact(Cur, d[1], d[2], d[3]) :
                /\ o.http = 404 <=> n = 0
                /\ o.http = 409 <=> n > 1
                /\ o.http = 200 <=> n = 1

\* the successful deletes a store offers
Deletes ==
    IF store = "sql"
    THEN UNION {delete_contact(Cur, d[1], d[2], d[3]) : d \in DeleteRequests}
    ELSE UNION {delete_contact_by_email(Cur, email) : email \in Values \cup {UserEmail}}

\* C8: after a successful delete (delete_contact or delete_contact_by_email) no
\* contact_methods row and no contact_emails row references the deleted contact,
\* and every emails row that existed before still exists, also the emails whose
\* only linked contact was the deleted one.
C8_DeleteCascade ==
    \A o \in Deletes :
        o.status = "True" =>
            /\ \E c \in contacts : c.id = o.id /\ o.contacts = contacts \ {c}
            /\ \A m \in o.contact_methods : m.contact_id # o.id
            /\ \A l \in o.contact_emails : l.contact_id # o.id
            /\ {e.id : e \in o.emails} = {e.id : e \in emails}
            /\ \A e \in emails :
                  \E x \in o.emails :
                      x.id = e.id /\ x.content = e.content /\ x.date = e.date

\* in the ORM store, where an email is linked when it is saved: a contact has
\* just been deleted and an email is left that no contact is linked to
C8_Witness ==
    /\ store = "orm"
    /\ result = [op |-> "delete_contact_by_email", status |-> "True"]
    /\ \E e \in emails : LinkedTo(Cur, e.id) = {}

\* the contacts a caller names by the entries of an email request
ResolvedBy(entries) ==
    {c.id : c \in {x \in contacts : \E m \in MethodsOf(Cur, x) : m.value \in entries}}

\* requests with a date PostgreSQL accepts
DatedEmails == {e \in EmailRequests : e[2] \in Dates}

\* what two add_email calls of the same content must give: the same id, one row
\* of that content, and links to the union of the contacts resolved
SameContentTwice(e1, e2) ==
    \A o1 \in add_email(Cur, e1[1], e1[2], e1[3], e1[4]) :
        /\ o1.status = "ok"
        /\ \A o2 \in add_email(o1, e2[1], e2[2], e2[3], e2[4]) :
              /\ o2.status = "ok"
              /\ o2.id = o1.id
              /\ Cardinality({e \in o2.emails : e.content = Escape(e1[3])}) = 1
              /\ LinkedTo(o2, o1.id) =
                    LinkedTo(Cur, o1.id) \cup ResolvedBy(e1[1]) \cup ResolvedBy(e2[1])

\* C9: add_email called twice with the same content, with any dates, summaries
\* and contact lists, returns the same email id both times, leaves exactly one
\* emails row with that content, and leaves the email linked to the union of the
\* contacts resolved by the two calls.
C9_SameContentTwice ==
    \A e1 \in DatedEmails \cap PlainEmails :
        \A e2 \in {e \in DatedEmails : e[3] = e1[3]} : SameContentTwice(e1, e2)

\* the same for calls whose contact lists are not empty
C9_SameContentTwiceNonEmpty ==
    \A e1 \in {e \in DatedEmails \cap PlainEmails : e[1] # {}} :
        \A e2 \in {e \in DatedEmails : e[3] = e1[3] /\ e[1] # {}} :
            SameContentTwice(e1, e2)

\* the row of a store's table with a given id
RowOf(rows, id) == CHOOSE r \in rows : r.id = id

\* what a linking call leaves in last_contacted, d being the date of the link
LastContactedAfter(s, o, linked, d) ==
    \A c \in s.contacts :
        /\ \E x \in o.contacts : x.id = c.id
        /\ \A x \in o.contacts :
              x.id = c.id =>
                /\ x.last_contacted >= c.last_contacted
                /\ x.last_contacted =
                      IF /\ o.status = "ok" /\ c.id \in linked
                         /\ (c.last_contacted = NoDate \/ c.last_contacted < d)
                      THEN d ELSE c.last_contacted

\* C10: over add_email and update_emails_for_contact calls a contact's
\* last_contacted never becomes earlier; a call that links the contact with a
\* date before or on the current value leaves it unchanged, and one with a date
\* after it (or when it is null) sets it to the date passed to the call.
C10_LastContacted ==
    /\ \A e \in PlainEmails :
          \A o \in add_email(Cur, e[1], e[2], e[3], e[4]) :
              LastContactedAfter(Cur, o, ResolvedBy(e[1]), e[2])
    /\ \A contact_id \in 1..MaxContacts, e \in PlainEmails :
          \A o \in update_emails_for_contact(Cur, contact_id, e[2], e[3], e[4]) :
              LastContactedAfter(Cur, o, {contact_id}, e[2])

\* a call has just linked a contact to an email stored with an earlier date, and
\* the contact's last_contacted is the later date of that call
C10_Witness ==
    /\ result.status = "ok"
    /\ result.op \in {"add_email", "update_emails_for_contact"}
    /\ \E c \in contacts :
          /\ c.last_contacted = MaxDate
          /\ LinksOf(Cur, c) # {}
          /\ \A l \in LinksOf(Cur, c) : RowOf(emails, l.email_id).date < MaxDate

\* the date of the emails row a call returned
DateOfEmail(o) == IF o.status = "ok" THEN RowOf(o.emails, o.id).date ELSE NoDate

\* C10 as stated: the date that counts is the date of the email linked
C10_EmailDate ==
    /\ \A e \in PlainEmails :
          \A o \in add_email(Cur, e[1], e[2], e[3], e[4]) :
              LastContactedAfter(Cur, o, ResolvedBy(e[1]), DateOfEmail(o))
    /\ \A contact_id \in 1..MaxContacts, e \in PlainEmails :
          \A o \in update_emails_for_contact(Cur, contact_id, e[2], e[3], e[4]) :
              LastContactedAfter(Cur, o, {contact_id}, DateOfEmail(o))

\* the contacts an entry of a contacts list names, by name or by method value
NamedBy(entries) ==
    {c.id : c \in {x \in contacts :
                     x.name \in entries \/
                     \E m \in MethodsOf(Cur, x) : m.value \in entries}}

\* C11: add_email links the email to every existing contact whose name, or any
\* of whose contact-method values, equals an entry of the contacts argument; a
\* list made only of contact names links the contacts with those names.
C11_LinksByNameOrValue ==
    \A e \in {x \in DatedEmails \cap PlainEmails : x[1] # {}} :
        \A o \in add_email(Cur, e[1], e[2], e[3], e[4]) :
            /\ o.status = "ok"
            /\ NamedBy(e[1]) \subseteq LinkedTo(o, o.id)

\* the same for the contacts named by a method value
C11_LinksByValue ==
    \A e \in {x \in DatedEmails \cap PlainEmails : x[1] # {}} :
        \A o \in add_email(Cur, e[1], e[2], e[3], e[4]) :
            /\ o.status = "ok"
            /\ ResolvedBy(e[1]) \subseteq LinkedTo(o, o.id)
            /\ LinkedTo(o, o.id) = LinkedTo(Cur, o.id) \cup ResolvedBy(e[1])

\* C12: POST /emails whose contacts entries resolve to no existing contact
\* answers 404 and stores neither an emails row nor a contact_emails row.
C12_Unresolved404 ==
    \A e \in {x \in DatedEmails \cap PlainEmails : x[1] # {}} :
        ResolvedBy(e[1]) = {} =>
            \A o \in add_email(Cur, e[1], e[2], e[3], e[4]) :
                o.http = 404 /\ SameTables(Cur, o)

\* what the handler does with such a request: 201, the email stored (once),
\* no link added
C12_UnresolvedStored ==
    \A e \in {x \in DatedEmails \cap PlainEmails : x[1] # {}} :
        ResolvedBy(e[1]) = {} =>
            \A o \in add_email(Cur, e[1], e[2], e[3], e[4]) :
                /\ o.http = 201
                /\ \E r \in o.emails : r.id = o.id /\ r.content = Escape(e[3])
                /\ o.contact_emails = contact_emails

\* requests whose date PostgreSQL cannot parse
BadDated == {e \in EmailRequests : e[2] = BadDate /\ e[4] = <<>>}

\* C13: for every store state, contacts list and content (stored or not), an
\* email creation whose date is not a parseable calendar date fails without
\* writing any row, and POST /emails answers 400.
C13_BadDate400 ==
    \A e \in BadDated :
        \A o \in add_email(Cur, e[1], e[2], e[3], e[4]) :
            /\ o.status # "ok"
            /\ SameTables(Cur, o)
            /\ o.http = 400

\* what holds of such a request: no row is written, whatever the answer
C13_BadDateWritesNothing ==
    \A e \in BadDated :
        \A o \in add_email(Cur, e[1], e[2], e[3], e[4]) :
            SameTables(Cur, o) /\ o.http \in {201, 500}

\* a request with an unparseable date is answered 201: its content is stored and
\* its contacts resolve to nobody, so the date is never handed to PostgreSQL
C13_BadDateAccepted ==
    \E e \in {x \in BadDated : x[1] # {}} :
        \E o \in add_email(Cur, e[1], e[2], e[3], e[4]) : o.http = 201

\* the ids of the emails a fetch yields
Yielded(s, names) == {r.id : r \in fetch_emails_with_contacts(s, names)}

\* the ids of the emails linked to a contact
EmailsOf(s, contact_id) ==
    {l.email_id : l \in {x \in s.contact_emails : x.contact_id = contact_id}}

\* C14: after POST /emails succeeds (201) with contacts=[v], v an email address
\* of an existing contact, GET /emails?contacts=v returns exactly the emails so
\* posted: the identifier accepted for linking also selects when filtering.
C14_FilterByAddress ==
    \A c \in contacts :
        \A m \in {x \in MethodsOf(Cur, c) : x.method_type = "email"} :
            \A e \in {x \in DatedEmails \cap PlainEmails : x[1] = {m.value}} :
                \A o \in add_email(Cur, e[1], e[2], e[3], e[4]) :
                    /\ o.http = 201
                    /\ o.id \in Yielded(o, {m.value})
                    /\ Yielded(o, {m.value}) = EmailsOf(o, c.id)

\* the same when the filter is the contact's name instead of the address
C14_FilterByName ==
    \A c \in contacts :
        \A m \in {x \in MethodsOf(Cur, c) : x.method_type = "email"} :
            \A e \in {x \in DatedEmails \cap PlainEmails : x[1] = {m.value}} :
                \A o \in add_email(Cur, e[1], e[2], e[3], e[4]) :
                    /\ o.http = 201
                    /\ o.id \in Yielded(o, {c.name})
                    /\ EmailsOf(o, c.id) \subseteq Yielded(o, {c.name})

\* C15: with no contacts filter, GET /emails returns every row of the emails
\* table exactly once in every reachable state, also the emails with no linked
\* contact and those whose linked contacts have no email-type method.
C15_AllEmails ==
    LET rows == fetch_emails_with_contacts(Cur, {}) IN
    /\ {r.id : r \in rows} = {e.id : e \in emails}
    /\ \A r1, r2 \in rows : r1.id = r2.id => r1 = r2

\* what is returned: once each, the emails linked to a contact that has an
\* email-type method
C15_EmailsWithAddress ==
    LET rows == fetch_emails_with_contacts(Cur, {}) IN
    /\ {r.id : r \in rows} =
          {e.id : e \in {x \in emails :
                          \E c \in contacts : \E m \in MethodsOf(Cur, c) :
                              /\ x.id \in EmailsOf(Cur, c.id)
                              /\ m.method_type = "email"}}
    /\ \A r1, r2 \in rows : r1.id = r2.id => r1 = r2

\* C16: every email yielded is paired with a list holding exactly one (name,
\* address) entry for each contact currently linked to it, the address being an
\* email of that contact; with a name filter the emails yielded are those linked
\* to at least one contact whose name is in the list, each yielded once.
C16_OneEntryPerContact ==
    \A names \in Filters :
        LET rows == fetch_emails_with_contacts(Cur, names) IN
        /\ \A r \in rows :
              /\ \A x \in r.contacts : x.contact_id \in LinkedTo(Cur, r.id)
              /\ \A id \in LinkedTo(Cur, r.id) :
                    Cardinality({x \in r.contacts : x.contact_id = id}) = 1
        /\ names # {} =>
              {r.id : r \in rows} = email_ids(Cur, names)
        /\ \A r1, r2 \in rows : r1.id = r2.id => r1 = r2

\* what the list holds: one entry for each email-type method of each linked
\* contact, under the name of the contact that owns the method
C16_OneEntryPerAddress ==
    \A names \in Filters :
        \A r \in fetch_emails_with_contacts(Cur, names) :
            /\ \A x \in r.contacts :
                  /\ x.contact_id \in LinkedTo(Cur, r.id)
                  /\ \E c \in contacts : \E m \in MethodsOf(Cur, c) :
                        /\ c.id = x.contact_id /\ m.id = x.method_id
                        /\ m.method_type = "email"
                        /\ x.name = c.name /\ x.email = m.value
            /\ \A c \in contacts, m \in contact_methods :
                  (/\ c.id \in LinkedTo(Cur, r.id) /\ m.contact_id = c.id
                   /\ m.method_type = "email") =>
                      Cardinality({x \in r.contacts : x.method_id = m.id}) = 1

\* text contains a filter, case-insensitively
ContainsCI(text, f) == text # NULL /\ Contains(Lower(text), Lower(f))

\* the contacts that satisfy every supplied filter at once
Satisfying(f) ==
    {c \in contacts :
        /\ Truthy(f[1]) => ContainsCI(c.name, f[1])
        /\ Truthy(f[3]) => ContainsCI(c.company, f[3])
        /\ Truthy(f[2]) =>
              \E m \in MethodsOf(Cur, c) :
                  m.method_type = "email" /\ ContainsCI(m.value, f[2])}

\* C17: get_contacts(name, email, company) returns exactly the contacts that
\* satisfy every supplied filter at once: name and company contain their filters
\* case-insensitively and the contact owns an email-type method whose value
\* contains the email filter; an absent filter restricts nothing.
C17_ExactlySatisfying ==
    \A f \in ContactFilters : get_contacts(Cur, f[1], f[2], f[3]) = Satisfying(f)

\* the same for filters free of the characters % and _
C17_PlainFilters ==
    \A f \in ContactFilters :
        (\A i \in 1..3 : ~Contains(f[i], <<"%">>) /\ ~Contains(f[i], <<"_">>)) =>
            get_contacts(Cur, f[1], f[2], f[3]) = Satisfying(f)

\* the filters of C17_PlainFilters tell contacts apart: one of them is satisfied
\* by one of two stored contacts only
C17_PlainFiltersSelect ==
    /\ result.op = "get_contacts"
    /\ \E f \in ContactFilters :
          /\ Truthy(f[1]) /\ Truthy(f[2]) /\ Truthy(f[3])
          /\ Cardinality(Satisfying(f)) = 1 /\ Cardinality(contacts) = 2

\* the contacts that own an email-type method of a given value
OwningEmail(s, e) ==
    {c \in s.contacts :
        \E m \in MethodsOf(s, c) : m.method_type = "email" /\ m.value = e}

\* C18: delete_contact_by_email(e) returns True exactly when some contact owns
\* an email-type method whose value is e, and then no contact with that address
\* remains while every other contact is unchanged; otherwise it returns False
\* and changes nothing; DELETE /contacts/<email> answers 200 and 404.
C18_DeleteByEmail ==
    store = "orm" =>
        \A e \in Values \cup {UserEmail} :
            LET outs == routes_delete_contact(Cur, e) IN
            /\ outs # {}
            /\ \A o \in outs :
                  IF OwningEmail(Cur, e) # {}
                  THEN /\ o.status = "True" /\ o.http = 200
                       /\ OwningEmail(o, e) = {}
                       /\ get_contact_by_email(o, e) = {}
                       /\ \E c \in OwningEmail(Cur, e) :
                             /\ o.contacts = contacts \ {c}
                             /\ o.contact_methods = contact_methods \ MethodsOf(Cur, c)
                  ELSE /\ o.status = "False" /\ o.http = 404
                       /\ SameTables(Cur, o)

\* a contact has just been deleted by its address while the other contact ever
\* created, which holds a phone, is still stored
C18_Witness ==
    /\ store = "orm"
    /\ result = [op |-> "delete_contact_by_email", status |-> "True"]
    /\ \E m \in contact_methods : m.method_type = "phone"
    /\ contact_seq = MaxContacts /\ Cardinality(contacts) = 1

\* C19: after any sequence of contact-creating requests through either HTTP
\* API, every stored contact has at least one contact method, and every stored
\* ContactMethod has a method_type in {email, phone, linkedin} and a non-empty
\* value.
C19_WellFormedMethods ==
    /\ \A c \in contacts : MethodsOf(Cur, c) # {}
    /\ \A m \in contact_methods : m.method_type \in ValidTypes /\ m.value # <<>>

\* what each API does guarantee: a method of every contact; a non-empty type and
\* value in the raw-SQL API, a type of the three in the ORM API
C19_PerStore ==
    /\ \A c \in contacts : MethodsOf(Cur, c) # {}
    /\ \A m \in contact_methods :
          /\ m.method_type # NoType /\ m.value # Absent
          /\ store = "sql" => m.method_type # "" /\ m.value # <<>>
          /\ store = "orm" => m.method_type \in ValidTypes

\* the answers of the API of the store at hand
PostAnswers(body) ==
    IF store = "sql" THEN api_add_contact(Cur, body) ELSE routes_create_contact(Cur, body)

\* a body that lacks name or contact_methods, has an empty list, or has a
\* method lacking type or value
Malformed(body) ==
    \/ ~body.has_name
    \/ ~body.has_methods
    \/ body.methods = <<>>
    \/ \E i \in DOMAIN body.methods :
          body.methods[i].type = NoType \/ body.methods[i].value = Absent

Tables == <<contacts, contact_methods, emails, contact_emails>>

\* every contact row has a method row, and every method row and every
\* contact_emails row has its contact row and its email row
ReaderConsistent ==
    /\ \A c \in contacts : MethodsOf(Cur, c) # {}
    /\ \A m \in contact_methods : \E c \in contacts : c.id = m.contact_id
    /\ \A l \in contact_emails :
          /\ \E c \in contacts : c.id = l.contact_id
          /\ \E e \in emails : e.id = l.email_id

\* the step adds one contact row with the name of the request and one method row
\* for each method of the request, and nothing else
WholeContact(c) ==
    \E row \in contacts' :
        /\ row \notin contacts /\ row.name = c.req[1]
        /\ contacts' = contacts \cup {row}
        /\ contact_methods \subseteq contact_methods'
        /\ contact_methods' \ contact_methods =
               {m \in contact_methods' : m.contact_id = row.id}
        /\ {<<m.method_type, m.value>> : m \in contact_methods' \ contact_methods} =
               {<<c.req[2][i].type, c.req[2][i].value>> : i \in DOMAIN c.req[2]}
        /\ Cardinality(contact_methods' \ contact_methods) = Len(c.req[2])
        /\ UNCHANGED <<emails, contact_emails>>

\* the step removes the contact row, its method rows and its contact_emails rows,
\* and nothing else
WholeDelete(c) ==
    /\ contacts' = {x \in contacts : x.id # c.cid}
    /\ contact_methods' = {m \in contact_methods : m.contact_id # c.cid}
    /\ contact_emails' = {l \in contact_emails : l.contact_id # c.cid}
    /\ UNCHANGED emails

\* the step leaves the email of the request stored and linked to every contact
\* it resolved that still exists, each with its last_contacted brought forward,
\* and nothing else
WholeEmail(c) ==
    LET targets == {i \in c.ids : \E x \in contacts' : x.id = i} IN
    /\ \E e \in emails' : e.id = c.eid /\ emails' = emails \cup {e}
    /\ contact_emails' = LinkContacts(contact_emails, targets, c.eid)
    /\ contacts' = BumpLastContacted(contacts, targets, c.req[2])
    /\ UNCHANGED contact_methods

WholeEffect(c) ==
    CASE c.op \in {"add_contact", "create_contact"} -> WholeContact(c)
      [] c.op = "delete_contact" -> WholeDelete(c)
      [] c.op = "add_email" -> WholeEmail(c)
      [] OTHER -> FALSE

Ends(k) == conns[k].op # "idle" /\ conns'[k].op = "idle"

AllOrNothingStep ==
    /\ (\E k \in Conn : Ends(k) /\ result'.status # "ok") => UNCHANGED Tables
    /\ Tables' # Tables =>
          \E k \in Conn : Ends(k) /\ result'.status = "ok" /\ WholeEffect(conns[k])

\* C21: add_contact, add_email and delete_contact are all-or-nothing for every
\* other connection and after any failure: the committed tables change only when
\* a request ends successfully, and then by the whole effect of its operation (the
\* contact row with all its methods; the email with all its links; the contact row
\* with its methods and links removed); a request that fails at any statement
\* leaves them unchanged; and no committed state shows a contact without methods
\* or a method or link without its contact.
C21_AllOrNothing == []ReaderConsistent /\ [][AllOrNothingStep]_vars

\* one connection has inserted its contact row and the first of its two methods,
\* while another has deleted the links and methods of a contact but not its row
C21_Witness ==
    \E k, j \in Conn :
        /\ conns[k].op = "add_contact" /\ conns[k].pc = "methods" /\ conns[k].i = 2
        /\ conns[k].ins.contacts # {} /\ conns[k].ins.contact_methods # {}
        /\ conns[j].op = "delete_contact" /\ conns[j].pc = "delete_contact"
        /\ conns[j].del.contact_methods # {}

\* C22: whatever the interleaving of the check and insert statements of two
\* POST /contacts requests in flight together, the committed contact_methods
\* never hold more than one row of a given value.
C22_OneRowPerValue ==
    \A v \in Values : Cardinality({m \in contact_methods : m.value = v}) <= 1

\* a method of the body (type and value) that a stored ContactMethod row has
HeldMethod(body) ==
    \E i \in DOMAIN body.methods : ExistingMethod(Cur, MethodsOfBody(body)[i]) # {}

\* C23: the ORM API's POST /contacts answers 409 exactly when a supplied contact
\* method is held by an existing contact, answers 400 to every other request it
\* rejects, whatever the text of an unparseable last_contacted, and persists no
\* contact in either case.
C23_Conflict409 ==
    store = "orm" =>
        \A body \in DatedBodies : \A o \in routes_create_contact(Cur, body) :
            /\ o.http = 409 <=> HeldMethod(body)
            /\ o.http # 201 => o.http \in {400, 409} /\ SameTables(Cur, o)

\* the same for the bodies that list no value twice and whose last_contacted
\* does not contain the words of the duplicate error
C23_Conflict409Plain ==
    store = "orm" =>
        \A body \in DatedBodies :
            (/\ ~Contains(body.last_contacted, AlreadyAssociated)
             /\ \A i, j \in DOMAIN body.methods :
                   body.methods[i].value = body.methods[j].value => i = j) =>
                \A o \in routes_create_contact(Cur, body) :
                    /\ o.http = 409 <=> HeldMethod(body)
                    /\ o.http # 201 => o.http \in {400, 409} /\ SameTables(Cur, o)

\* the answers of search_emails to a search q of Searches
Found(q) == search_emails(Cur, q[1], q[2], q[3], q[4], q[5], q[6], q[7])

\* the emails a search q is about
MatchingEmails(q) == base_query(Cur, q[1], q[2], q[3], q[4], q[5])

\* r is the page of at most limit emails at offset of the matching emails in a
\* descending date order, with their number and whether more remain
PageOf(r, q) ==
    LET limit == q[6]
        offset == q[7]
        n == Cardinality(MatchingEmails(q))
    IN /\ Len(r.emails) <= limit
       /\ \E rows \in Descending(MatchingEmails(q)) :
             \A i \in 1..Len(r.emails) :
                 offset + i <= n /\ r.emails[i] = rows[offset + i]
       /\ Len(r.emails) = limit \/ offset + Len(r.emails) >= n
       /\ r.total = n
       /\ r.has_more <=> n > offset + limit

\* C24: what search_emails returns is at most limit emails, taken in descending
\* date order from offset among the matching emails, with total the number of
\* matching emails and has_more true exactly when matching emails remain beyond
\* offset + limit.
C24_Page ==
    store = "orm" =>
        \A q \in Searches : \A r \in Found(q) : r.status = "ok" => PageOf(r, q)

\* the same for a limit that is not negative
C24_PageOfLimit ==
    store = "orm" =>
        \A q \in Searches : \A r \in Found(q) :
            (r.status = "ok" /\ q[6] >= 0) => PageOf(r, q)

\* two emails are stored and a search of limit 1 returns one of them with
\* has_more set
C24_PageOfLimitMore ==
    /\ Cardinality(emails) = 2
    /\ \E q \in Searches : \E r \in Found(q) :
          r.status = "ok" /\ q[6] = 1 /\ Len(r.emails) = 1 /\ r.has_more

\* the entries of a batch that satisfy P, by position
BadDates(batch) == {i \in DOMAIN batch : batch[i][4] = BadDate}
GoodDates(batch) == {i \in DOMAIN batch : batch[i][4] \in Dates}
WithMessageId(batch) == {i \in DOMAIN batch : batch[i][1] /\ batch[i][4] # NoDate}

\* an entry with a date whose sender and recipients are no stored contact's address
Unmatched(m) ==
    /\ m[4] # NoDate
    /\ get_contact_by_email(Cur, m[2]) = {}
    /\ \A r \in m[3] : get_contact_by_email(Cur, r) = {}

\* the call came to its commit: it returned, or the commit raised
Completed(o) == o.status \in {"returned", "RuntimeError"}

\* C25: a batch entry whose date does not parse is not persisted, is counted as
\* failed and does not abort the call: the call comes to its commit, and when it
\* returns, failed counts those entries and one Email row exists for each entry
\* with a valid date.
C25_BadDateFailed ==
    store = "orm" =>
        \A batch \in Batches :
            (BadDates(batch) # {} /\ WithMessageId(batch) = {}) =>
                \A o \in save_emails_batch(Cur, batch) :
                    /\ Completed(o)
                    /\ o.status = "returned" =>
                          /\ o.failed = Cardinality(BadDates(batch))
                          /\ Cardinality(o.emails \ emails) = Cardinality(GoodDates(batch))

\* the same for the calls that return
C25_BadDateFailedReturned ==
    store = "orm" =>
        \A batch \in Batches : \A o \in save_emails_batch(Cur, batch) :
            o.status = "returned" =>
                /\ o.failed = Cardinality(BadDates(batch))
                /\ o.saved = Cardinality(GoodDates(batch))
                /\ Cardinality(o.emails \ emails) = Cardinality(GoodDates(batch))

\* a batch of a bad date and a good one can be saved, the first counted as failed
C25_BadDateFailedReached ==
    \E batch \in Batches : \E o \in save_emails_batch(Cur, batch) :
        /\ Len(batch) = 2 /\ batch[1][4] = BadDate /\ batch[2][4] = 1
        /\ o.status = "returned" /\ o.failed = 1 /\ o.saved = 1

\* C26: when the final commit of save_emails_to_db fails, the call raises
\* RuntimeError and the store is as it was before the call: no email, link,
\* contact or contact method of the batch is stored; and every batch that can
\* return can also end so.
C26_CommitFailure ==
    store = "orm" =>
        \A batch \in Batches :
            /\ \A o \in save_emails_batch(Cur, batch) :
                  o.status = "RuntimeError" => SameTables(Cur, o)
            /\ (\E o \in save_emails_batch(Cur, batch) : o.status = "returned") =>
                  \E o \in save_emails_batch(Cur, batch) : o.status = "RuntimeError"

\* a commit has just failed in a store where a batch would have stored an email
\* and created a contact for its sender
C26_Witness ==
    /\ result = [op |-> "save_emails_to_db", status |-> "RuntimeError"]
    /\ \E batch \in Batches : \E o \in save_emails_batch(Cur, batch) :
          o.status = "returned" /\ o.saved >= 1 /\ o.contacts # contacts

\* C27: a batch entry whose sender and recipients match no stored contact is
\* filtered out without being persisted, and the call goes on to its commit.
C27_FilteredOut ==
    store = "orm" =>
        \A batch \in Batches :
            ((\E i \in DOMAIN batch : Unmatched(batch[i])) /\ WithMessageId(batch) = {}) =>
                \A o \in save_emails_batch(Cur, batch) :
                    /\ Completed(o)
                    /\ Cardinality(o.emails \ emails) <= Len(batch) - 1

\* C28: a call whose entries carry a message_id looks the message_id up among
\* the stored emails and comes to its commit: an entry whose message_id is stored
\* is skipped, and the others are saved at most once each.
C28_MessageIdOnce ==
    store = "orm" =>
        \A batch \in Batches :
            WithMessageId(batch) # {} =>
                \A o \in save_emails_batch(Cur, batch) : Completed(o)

\* what the code does: the lookup raises for every entry that carries a
\* message_id, and nothing of the batch is stored
C28_MessageIdRaises ==
    store = "orm" =>
        \A batch \in Batches :
            WithMessageId(batch) # {} =>
                \A o \in save_emails_batch(Cur, batch) :
                    /\ o.status \in {"InvalidRequestError", "UnboundLocalError"}
                    /\ SameTables(Cur, o)

\* C29: save_emails_to_db creates a contact and a contact method only for a
\* sender address that is a configured user email.
C29_UserSenderOnly ==
    store = "orm" =>
        \A batch \in Batches : \A o \in save_emails_batch(Cur, batch) :
            /\ \A m \in o.contact_methods \ contact_methods : m.value = UserEmail
            /\ \A c \in o.contacts \ contacts :
                  \E m \in o.contact_methods : m.contact_id = c.id /\ m.value = UserEmail

\* what the code does guarantee: a created contact holds the sender address of
\* an entry of the batch, which no contact held
C29_SenderOnly ==
    store = "orm" =>
        \A batch \in Batches : \A o \in save_emails_batch(Cur, batch) :
            /\ \A m \in o.contact_methods \ contact_methods :
                  /\ \E i \in DOMAIN batch : m.value = batch[i][2]
                  /\ get_contact_by_email(Cur, m.value) = {}
            /\ \A c \in o.contacts \ contacts :
                  \E m \in o.contact_methods \ contact_methods : m.contact_id = c.id

\* the words of a string
Range(text) == {text[i] : i \in DOMAIN text}

\* the content and summary strings handed to add_email, with and without quotes
QuotedTexts == Contents \cup Summaries

\* the rows the two readers return for the email of an add_email outcome
FetchedRows(o) ==
    {[content |-> e.content, summary |-> e.summary] :
        e \in {x \in fetch_emails(StoreOf(o), {}) : x.id = o.id}}
    \cup
    {[content |-> e.content, summary |-> e.summary] :
        e \in {x \in fetch_emails_with_contacts(StoreOf(o), {}) : x.id = o.id}}

\* add_email inserted a row for the content, no email held it before
Inserted(c) == ExistingEmail(Cur, Escape(c)) = {}

\* C30: an email stored with add_email(content = c, summary = s) is returned by
\* fetch_emails and by fetch_emails_with_contacts with content c and summary s,
\* whether or not the strings contain single quotes.
C30_RoundTrip ==
    store = "sql" =>
        \A entries \in SUBSET Entries, date \in Dates, c \in QuotedTexts, sm \in QuotedTexts :
            Inserted(c) =>
                \A o \in add_email(Cur, entries, date, c, sm) :
                    o.status = "ok" =>
                        /\ \E e \in fetch_emails(StoreOf(o), {}) : e.id = o.id
                        /\ \A r \in FetchedRows(o) : r.content = c /\ r.summary = sm

\* what the code does: the readers return the strings with every single quote
\* doubled, so strings without a quote come back as they were given
C30_RoundTripDoubled ==
    store = "sql" =>
        \A entries \in SUBSET Entries, date \in Dates, c \in QuotedTexts, sm \in QuotedTexts :
            Inserted(c) =>
                \A o \in add_email(Cur, entries, date, c, sm) :
                    o.status = "ok" =>
                        /\ \E e \in fetch_emails(StoreOf(o), {}) : e.id = o.id
                        /\ \A r \in FetchedRows(o) :
                              /\ r.content = Escape(c) /\ r.summary = Escape(sm)
                              /\ Quote \notin Range(c) => r.content = c
                              /\ Quote \notin Range(sm) => r.summary = sm

\* an email with a quote in its content is stored and linked to a contact, and
\* both readers return it
C30_RoundTripReached ==
    /\ store = "sql"
    /\ \E e \in fetch_emails_with_contacts(Cur, {}) : Quote \in Range(e.content)
    /\ \E e \in fetch_emails(Cur, {}) : Quote \in Range(e.content)

====
